---- MODULE Spec2Model ----
(***************************************************************************)
(* Model of vg_inspect.count_chunks (src/src/vg_inspect.py).               *)
(*                                                                         *)
(*   def count_chunks(path):                                               *)
(*       cnt = itertools.count()                                           *)
(*       deque(zip(stream.parse(path, vg.Graph), cnt), 0)                  *)
(*       return next(cnt)                                                  *)
(*                                                                         *)
(* The call is unfolded into the steps CPython takes: zip's __next__ pulls *)
(* its iterators in argument order and stops at the first one that is      *)
(* exhausted; deque(iterable, 0) consumes one tuple at a time; an          *)
(* exception raised by an iterator leaves the function.  The streaming     *)
(* decoder stream.parse is an external library: it is modelled from its    *)
(* documented iteration contract (lazy, finite, raises on a missing file   *)
(* or a malformed record, releases its file handle when it finishes).      *)
(***************************************************************************)
EXTENDS Integers, Sequences, FiniteSets, TLC

\* ---------------------------------------------------------------- bounds
\* Longest file, in records.
MaxRecords == 3
\* Number of calls of count_chunks in one behaviour.
MaxCalls == 2
\* The counter never gets this far in a terminating traversal.
CntCap == MaxRecords + 2

\* ------------------------------------------------------------- the inputs
\* Message types a record can have been serialized as.
Types == {"Graph", "Alignment"}
\* What one length-delimited record of a file can be.
RecordKinds == Types \cup {"corrupt"}
\* How the decoder treats a well-framed record of another type.
Policies == {"filter", "strict"}

RECURSIVE SeqsUpTo(_, _)
SeqsUpTo(S, n) ==
    IF n = 0 THEN {<<>>}
    ELSE LET shorter == SeqsUpTo(S, n - 1)
         IN  shorter \cup {Append(s, x) : s \in {t \in shorter : Len(t) = n - 1}, x \in S}

VARIABLES
    exists,     \* the path names a readable file
    file,       \* the records of the file, in order (<<>> when the path is missing)
    policy,     \* the decoder's treatment of foreign-type records
    pc,         \* position of the running call: idle, zip1, zip2, append, ret
    cnt,        \* next value of the itertools.count() iterator
    pos,        \* decoder: index of the next record to read
    handle,     \* decoder: file handle of this call: none, open, closed
    opens,      \* decoder: handles opened by this call
    inflight,   \* decoded records zip holds for the tuple under construction
    dq,         \* tuples retained by the deque
    produced,   \* records the stream has produced in this call
    fault,      \* exception the decoder raised in this call ("none" if none)
    passed,     \* message type the caller supplied ("none": count_chunks(path))
    opened,     \* descriptor the decoder of this call was created with
    results     \* outcomes of the finished calls, in order

env == <<exists, file, policy>>
vars == <<exists, file, policy, pc, cnt, pos, handle, opens, inflight, dq,
          produced, fault, passed, opened, results>>

\* ---------------------------------------------------- program constants
\* vg.Graph, the descriptor count_chunks hands to stream.parse.
MessageType_Alignment == "Alignment"
MessageType == "Graph"

\* itertools.count() starts at 0.
CountStart == 0

\* deque(iterable, 0): the maxlen argument.
DequeMaxlen_Unbounded == CntCap
DequeMaxlen == 0

\* zip(stream.parse(...), cnt): the stream first, the counter second.
ZipOrder_CntFirst == <<"cnt", "stream">>
ZipOrder == <<"stream", "cnt">>

\* ------------------------------------------------- the external decoder
\* A record the decoder opened with descriptor t does not recognise as a t.
Foreign(rec, t) == rec \in Types /\ rec # t

\* Under the filtering policy foreign records are passed over silently.
RECURSIVE SkipForeign(_, _)
SkipForeign(p, t) ==
    IF p <= Len(file) /\ policy = "filter" /\ Foreign(file[p], t)
    THEN SkipForeign(p + 1, t)
    ELSE p

\* One next() on the iterator stream.parse(path, t), reading at index p.
ParseNext(p, t) ==
    LET q == SkipForeign(p, t) IN
    IF ~exists THEN [kind |-> "FileError", pos |-> p]
    ELSE IF q > Len(file) THEN [kind |-> "stop", pos |-> q]
    ELSE IF file[q] = t THEN [kind |-> "item", pos |-> q + 1]
    ELSE [kind |-> "DecodeError", pos |-> q]

\* The decoder's file handle after a next() with result kind k: acquired on
\* the first successful open, released when the iterator finishes or raises.
HandleAfter(k) ==
    IF k = "FileError" THEN handle
    ELSE IF k = "item" THEN "open"
    ELSE "closed"

OpensAfter(k) ==
    IF k # "FileError" /\ handle = "none" THEN opens + 1 ELSE opens

\* ------------------------------------------------------------ count_chunks
Outcome(kind, val) ==
    [kind |-> kind, val |-> val, produced |-> produced', fault |-> fault',
     passed |-> passed, opened |-> opened]

\* An exception raised inside deque(zip(...)) is not caught: it leaves
\* count_chunks and reaches the caller as it is.
Raise_ReturnCount(e) ==
    /\ results' = Append(results, Outcome("value", <<cnt>>))
    /\ pc' = "idle"
    /\ cnt' = cnt + 1
Raise_ReturnZero(e) ==
    /\ results' = Append(results, Outcome("value", <<0>>))
    /\ pc' = "idle"
    /\ cnt' = cnt
Raise(e) ==
    /\ results' = Append(results, Outcome(e, <<>>))
    /\ pc' = "idle"
    /\ cnt' = cnt

\* zip stops at the first exhausted iterator; deque(...) is then complete.
ZipOnExhausted_Longest ==
    /\ pc' = "zip2"
    /\ UNCHANGED <<cnt, results>>
ZipOnExhausted ==
    /\ pc' = "ret"
    /\ UNCHANGED <<cnt, results>>

\* zip pulls the record stream; `cont` is where zip goes on with an item.
PullStream(cont) ==
    LET r == ParseNext(pos, opened) IN
    /\ handle' = HandleAfter(r.kind)
    /\ opens' = OpensAfter(r.kind)
    /\ pos' = r.pos
    /\ produced' = IF r.kind = "item" THEN produced + 1 ELSE produced
    /\ inflight' = IF r.kind = "item" THEN 1 ELSE 0
    /\ fault' = IF r.kind \in {"FileError", "DecodeError"} THEN r.kind ELSE fault
    /\ dq' = IF r.kind = "item" THEN dq ELSE 0
    /\ CASE r.kind = "item" -> pc' = cont /\ UNCHANGED <<cnt, results>>
         [] r.kind = "stop" -> ZipOnExhausted
         [] OTHER -> Raise(r.kind)
    /\ UNCHANGED <<env, passed, opened>>

\* zip pulls the counting iterator, which never ends.
PullCounter(cont) ==
    /\ cnt < CntCap
    /\ cnt' = cnt + 1
    /\ pc' = cont
    /\ UNCHANGED <<env, pos, handle, opens, inflight, dq, produced, fault,
                   passed, opened, results>>

Pull(it, cont) ==
    IF it = "stream" THEN PullStream(cont) ELSE PullCounter(cont)

\* count_chunks(path): bind the argument, make the counter, build the
\* iterators stream.parse(path, vg.Graph) and zip(...).
Call_SharedCounter ==
    /\ pc = "idle"
    /\ Len(results) < MaxCalls
    /\ cnt' = cnt
    /\ opened' = MessageType
    /\ passed' = "none"
    /\ pos' = 1
    /\ handle' = "none"
    /\ opens' = 0
    /\ inflight' = 0
    /\ dq' = 0
    /\ produced' = 0
    /\ fault' = "none"
    /\ pc' = "zip1"
    /\ UNCHANGED <<env, results>>
Call ==
    /\ pc = "idle"
    /\ Len(results) < MaxCalls
    /\ cnt' = CountStart
    /\ opened' = MessageType
    /\ passed' = "none"
    /\ pos' = 1
    /\ handle' = "none"
    /\ opens' = 0
    /\ inflight' = 0
    /\ dq' = 0
    /\ produced' = 0
    /\ fault' = "none"
    /\ pc' = "zip1"
    /\ UNCHANGED <<env, results>>

\* count_chunks(path, t): the signature has one parameter, so Python
\* rejects the call with TypeError before the body runs.
CallWithType(t) ==
    /\ pc = "idle"
    /\ Len(results) < MaxCalls
    /\ passed' = t
    /\ opened' = "none"
    /\ produced' = 0
    /\ fault' = "none"
    /\ handle' = "none"
    /\ opens' = 0
    /\ results' = Append(results, [kind |-> "TypeError", val |-> <<>>,
                                   produced |-> 0, fault |-> "none",
                                   passed |-> t, opened |-> "none"])
    /\ UNCHANGED <<env, pc, cnt, pos, inflight, dq>>

\* zip.__next__, first iterator.
ZipNext1 ==
    /\ pc = "zip1"
    /\ Pull(ZipOrder[1], "zip2")

\* zip.__next__, second iterator; the tuple is built when it yields.
ZipNext2 ==
    /\ pc = "zip2"
    /\ Pull(ZipOrder[2], "append")

\* deque takes the tuple and keeps at most maxlen of them.
DequeAppend_StopAfterOne ==
    /\ pc = "append"
    /\ dq' = IF dq + 1 > DequeMaxlen THEN DequeMaxlen ELSE dq + 1
    /\ inflight' = 0
    /\ pc' = "ret"
    /\ UNCHANGED <<env, cnt, pos, handle, opens, produced, fault, passed,
                   opened, results>>
DequeAppend ==
    /\ pc = "append"
    /\ dq' = IF dq + 1 > DequeMaxlen THEN DequeMaxlen ELSE dq + 1
    /\ inflight' = 0
    /\ pc' = "zip1"
    /\ UNCHANGED <<env, cnt, pos, handle, opens, produced, fault, passed,
                   opened, results>>

\* return next(cnt)
Return_PlusOne ==
    /\ pc = "ret"
    /\ results' = Append(results, [kind |-> "value", val |-> <<cnt + 1>>,
                                   produced |-> produced, fault |-> fault,
                                   passed |-> passed, opened |-> opened])
    /\ cnt' = cnt + 1
    /\ pc' = "idle"
    /\ UNCHANGED <<env, pos, handle, opens, inflight, dq, produced, fault,
                   passed, opened>>
Return ==
    /\ pc = "ret"
    /\ results' = Append(results, [kind |-> "value", val |-> <<cnt>>,
                                   produced |-> produced, fault |-> fault,
                                   passed |-> passed, opened |-> opened])
    /\ cnt' = cnt + 1
    /\ pc' = "idle"
    /\ UNCHANGED <<env, pos, handle, opens, inflight, dq, produced, fault,
                   passed, opened>>

\* ---------------------------------------------------------- specifications
Init ==
    /\ exists \in BOOLEAN
    /\ file \in (IF exists THEN SeqsUpTo(RecordKinds, MaxRecords) ELSE {<<>>})
    /\ policy \in Policies
    /\ pc = "idle"
    /\ cnt = 0
    /\ pos = 1
    /\ handle = "none"
    /\ opens = 0
    /\ inflight = 0
    /\ dq = 0
    /\ produced = 0
    /\ fault = "none"
    /\ passed = "none"
    /\ opened = "none"
    /\ results = <<>>

Step == ZipNext1 \/ ZipNext2 \/ DequeAppend \/ Return

Next == Call \/ Step

Spec == Init /\ [][Next]_vars

\* A started call is a sequential program: it keeps executing.
FairSpec == Init /\ [][Next]_vars /\ WF_vars(Step)

\* Callers that also try to supply a message type.
NextArgs == Next \/ (\E t \in Types : CallWithType(t))

SpecArgs == Init /\ [][NextArgs]_vars

\* ------------------------------------------------------------ properties
Finished == DOMAIN results

\* Number of records of the file that are vg::Graph messages.
NumTarget == Cardinality({j \in DOMAIN file : file[j] = "Graph"})

\* A well-formed file: it exists and every record is a valid vg::Graph.
WellFormed == exists /\ \A j \in DOMAIN file : file[j] = "Graph"

\* A file of valid records in which at least one is of another type.
Mixed ==
    /\ exists
    /\ \A j \in DOMAIN file : file[j] \in Types
    /\ \E j \in DOMAIN file : file[j] # "Graph"

\* C1: on a well-formed file of n vg::Graph records (n >= 0) every call of
\* count_chunks returns exactly n.
C1_ExactCount ==
    WellFormed =>
        \A i \in Finished :
            results[i].kind = "value" /\ results[i].val = <<Len(file)>>

C1_Witness ==
    /\ WellFormed
    /\ Len(file) = 3
    /\ Len(results) >= 1
    /\ results[1].val = <<3>>

\* C2: on a missing or unreadable path every call ends in FileError and
\* delivers no number.
C2_MissingPathRaises ==
    ~exists =>
        \A i \in Finished :
            results[i].kind = "FileError" /\ results[i].val = <<>>

C2_Witness ==
    /\ ~exists
    /\ Len(results) >= 1
    /\ results[1].kind = "FileError"

\* C3: when the decoder raises DecodeError after producing k records, the
\* call ends in DecodeError and delivers no count; k is never returned.
C3_DecodeErrorNoPartialCount ==
    \A i \in Finished :
        results[i].fault = "DecodeError" =>
            results[i].kind = "DecodeError" /\ results[i].val = <<>>

C3_Witness ==
    /\ Len(results) >= 1
    /\ results[1].fault = "DecodeError"
    /\ results[1].produced = 2
    /\ results[1].kind = "DecodeError"

\* C4: a call opens at most one file handle, and once the call has ended
\* (return, FileError or DecodeError) no handle of it is still open.
C4_HandleScoped ==
    /\ opens <= 1
    /\ (pc = "idle" => handle # "open")

C4_Witness ==
    /\ pc = "idle"
    /\ Len(results) >= 1
    /\ results[Len(results)].kind = "DecodeError"
    /\ results[Len(results)].produced >= 1
    /\ opens = 1
    /\ handle = "closed"

\* C5 as claimed: the decoder of a call is created with the message type
\* the caller passed to count_chunks(path, message_type).
C5_Original ==
    \A i \in Finished :
        results[i].passed # "none" => results[i].opened = results[i].passed

\* C5 as amended: count_chunks takes the path only; every decoder is
\* created with the fixed descriptor vg.Graph, and a call that supplies a
\* message type ends in TypeError before any decoder is created.
C5_FixedDescriptor ==
    \A i \in Finished :
        /\ results[i].passed = "none" => results[i].opened = "Graph"
        /\ results[i].passed # "none" =>
               results[i].kind = "TypeError" /\ results[i].opened = "none"

C5_Witness ==
    /\ Len(results) = 2
    /\ results[1].passed = "Alignment"
    /\ results[1].kind = "TypeError"
    /\ results[2].passed = "none"
    /\ results[2].opened = "Graph"
    /\ results[2].kind = "value"

\* C6: two successive calls on the same unmodified file end the same way:
\* the same count or the same error.
C6_SameOutcomeTwice ==
    \A i, j \in Finished :
        /\ results[i].kind = results[j].kind
        /\ results[i].val = results[j].val

C6_Witness ==
    /\ Len(results) = 2
    /\ Len(file) = 3
    /\ results[1].kind = "value"
    /\ results[1].val = <<2>>
    /\ results[2].val = <<2>>

\* C7: on a file of n vg::Graph records interleaved with m >= 1 valid
\* records of another type, a call returns n or fails with DecodeError.
C7_MixedTypes ==
    Mixed =>
        \A i \in Finished :
            \/ results[i].kind = "value" /\ results[i].val = <<NumTarget>>
            \/ results[i].kind = "DecodeError" /\ results[i].val = <<>>

C7_Witness ==
    /\ Mixed
    /\ NumTarget = 2
    /\ Len(file) = 3
    /\ Len(results) >= 1
    /\ results[1].kind = "value"
    /\ results[1].val = <<2>>

\* C8: at every point of the traversal the call holds at most one decoded
\* record, whatever the length of the file.
C8_AtMostOneHeld == inflight + dq <= 1

C8_Witness ==
    /\ produced = 3
    /\ pc = "append"
    /\ inflight + dq = 1

\* C9: a started call eventually ends (a count or an error), and while it
\* runs the decoder never goes back: every record produced moves it on.
C9_Terminates ==
    /\ (pc # "idle") ~> (pc = "idle")
    /\ [][pc # "idle" =>
            /\ pos' >= pos
            /\ (produced' > produced => pos' > pos)]_vars

C9_Witness ==
    /\ pc = "idle"
    /\ Len(file) = 3
    /\ Len(results) >= 1
    /\ results[1].produced = 3

\* C10: zip pulls the stream first and the counter second, so the counter
\* has advanced once per record produced, the exhausting step does not
\* advance it, and the returned value is the number of records produced.
C10_CounterTracksStream ==
    /\ pc \in {"zip1", "ret"} => cnt = produced
    /\ pc = "zip2" => inflight = 1 /\ cnt = produced - 1
    /\ pc = "append" => cnt = produced
    /\ \A i \in Finished :
           results[i].kind = "value" => results[i].val = <<results[i].produced>>

C10_Witness ==
    /\ pc = "ret"
    /\ produced = 3
    /\ cnt = 3

====
